---- MODULE Spec2Model ----
(***************************************************************************)
(* A model of the NNTP client of src/nntp.go: the command channel          *)
(* (Conn.cmd), the dot-terminated body reader (bodyReader), the overview   *)
(* negotiation (Conn.Overview) and the posting path (Conn.RawPost).        *)
(*                                                                         *)
(* Bytes are sequences of one-character strings; the inbound side of the   *)
(* connection is the sequence of lines (each ending in LF) the client has  *)
(* not read yet.  The server answers a command at the moment the command   *)
(* is written.                                                             *)
(***************************************************************************)
EXTENDS Integers, Sequences, FiniteSets, TLC

VARIABLES
    close,              \* Conn.close
    br,                 \* Conn.br: the pending bodyReader, or NilBr
    xzverUnsupported,   \* Conn.quirks.xzverUnsupported
    xzverSupported,     \* Conn.quirks.xzverSupported
    rx,                 \* lines sent by the server and not yet read through Conn.r
    net,                \* the transport: "up", "eof", "reset", "closed"
    live,               \* the caller still holds a valid body reader (no Conn method called since)
    lastOp,             \* what the last call did and returned
    nOps,               \* number of Conn method calls so far
    hist,               \* history: an XZVER attempt has failed / has succeeded on this session
    content,            \* posting check: the text handed to RawPost
    posted,             \* posting check: the lines RawPost wrote
    decoded,            \* posting check: the bytes read back through bodyReader
    rdr,                \* posting check: the bodyReader reading the posted lines
    sent,               \* posting check: every line put on the reader's connection
    pcPost              \* posting check: "idle", "post", "read", "failed", "done", "ended",
                        \* "undone", "panic", "blocked"

vars == <<close, br, xzverUnsupported, xzverSupported, rx, net, live, lastOp, nOps, hist,
          content, posted, decoded, rdr, sent, pcPost>>

connVars == <<close, br, xzverUnsupported, xzverSupported, rx, net, live, lastOp, nOps, hist>>
postVars == <<content, posted, decoded, rdr, sent, pcPost>>

\* Number of Conn method calls in one run.
MaxOps == 3
\* Posting check: number of lines of the text, and characters per line.
MaxLines == 2
MaxLineLen == 2
\* Number of calls in a run of single calls.
MaxCalls == 2

(***************************************************************************)
(* Bytes                                                                   *)
(***************************************************************************)
CRLF == <<"\r", "\n">>
LFs == <<"\n">>
dotnl == <<".", "\n">>
dotdot == <<".", ".">>
Marker == <<"[", "C", "O", "M", "P", "R", "E", "S", "S", "=", "G", "Z", "I", "P", "]">>

Min(a, b) == IF a < b THEN a ELSE b

HasPrefix(s, p) == Len(s) >= Len(p) /\ SubSeq(s, 1, Len(p)) = p
HasSuffix(s, p) == Len(s) >= Len(p) /\ SubSeq(s, Len(s) - Len(p) + 1, Len(s)) = p
Contains(s, p) == \E i \in 1..(Len(s) - Len(p) + 1) : SubSeq(s, i, i + Len(p) - 1) = p

IsSpace(ch) == ch \in {" ", "\t", "\n", "\r", "\f"}

RECURSIVE TrimLeft(_)
TrimLeft(s) == IF s # <<>> /\ IsSpace(Head(s)) THEN TrimLeft(Tail(s)) ELSE s

RECURSIVE TrimRight(_)
TrimRight(s) ==
    IF s # <<>> /\ IsSpace(s[Len(s)]) THEN TrimRight(SubSeq(s, 1, Len(s) - 1)) ELSE s

TrimSpace(s) == TrimRight(TrimLeft(s))

Digits == {"0", "1", "2", "3", "4", "5", "6", "7", "8", "9"}
DigitVal(ch) ==
    CASE ch = "0" -> 0 [] ch = "1" -> 1 [] ch = "2" -> 2 [] ch = "3" -> 3
      [] ch = "4" -> 4 [] ch = "5" -> 5 [] ch = "6" -> 6 [] ch = "7" -> 7
      [] ch = "8" -> 8 [] ch = "9" -> 9

RECURSIVE DigitsValue(_)
DigitsValue(s) ==
    IF s = <<>> THEN 0 ELSE 10 * DigitsValue(SubSeq(s, 1, Len(s) - 1)) + DigitVal(s[Len(s)])

\* strconv.ParseUint(s, 10, 0): ok only for a non-empty string of decimal digits.
ParseUint(s) ==
    IF s # <<>> /\ \A i \in 1..Len(s) : s[i] \in Digits
    THEN [ok |-> TRUE, v |-> DigitsValue(s)]
    ELSE [ok |-> FALSE, v |-> 0]

\* strconv.ParseInt(s, 10, 64) and strconv.Atoi(s): an optional sign, then digits.
ParseInt(s) ==
    IF s # <<>> /\ Head(s) \in {"+", "-"}
    THEN IF ParseUint(Tail(s)).ok
         THEN [ok |-> TRUE, v |-> IF Head(s) = "-" THEN 0 - ParseUint(Tail(s)).v
                                                   ELSE ParseUint(Tail(s)).v]
         ELSE [ok |-> FALSE, v |-> 0]
    ELSE ParseUint(s)

\* strings.Split(s, sep) for a one-character separator: always at least one field.
RECURSIVE SplitFrom(_, _, _, _)
SplitFrom(s, sep, cur, acc) ==
    IF s = <<>> THEN Append(acc, cur)
    ELSE IF Head(s) = sep THEN SplitFrom(Tail(s), sep, <<>>, Append(acc, cur))
    ELSE SplitFrom(Tail(s), sep, Append(cur, Head(s)), acc)

Split(s, sep) == SplitFrom(s, sep, <<>>, <<>>)

\* The line without its CRLF or LF ending, as readStrings and parseOverview cut it.
ChompLine(line) ==
    IF HasSuffix(line, CRLF) THEN SubSeq(line, 1, Len(line) - 2)
    ELSE IF HasSuffix(line, LFs) THEN SubSeq(line, 1, Len(line) - 1)
    ELSE line

(***************************************************************************)
(* Errors                                                                  *)
(***************************************************************************)
\* kind: "nil", "Error" (type Error), "ProtocolError", "io" (transport), "panic".
\* src is the command whose execution produced the error value.
NoErr == [kind |-> "nil", what |-> "", code |-> 0, text |-> <<>>, src |-> ""]
StatusError(code, text, src) ==
    [kind |-> "Error", what |-> "", code |-> code, text |-> text, src |-> src]
ProtocolError(what, src) ==
    [kind |-> "ProtocolError", what |-> what, code |-> 0, text |-> <<>>, src |-> src]
IoError(what, src) ==
    [kind |-> "io", what |-> what, code |-> 0, text |-> <<>>, src |-> src]
Panic(what, src) ==
    [kind |-> "panic", what |-> what, code |-> 0, text |-> <<>>, src |-> src]

(***************************************************************************)
(* The transport                                                           *)
(***************************************************************************)
\* bufio.Reader.ReadString('\n') / ReadBytes('\n') on Conn.r: the next line, or
\* the transport's failure once the buffered lines are used up (a partial line
\* is returned with the error and every caller drops it).
ReadLine(lines, n) ==
    IF lines # <<>>
    THEN [ok |-> TRUE, b |-> Head(lines), rest |-> Tail(lines), what |-> ""]
    ELSE [ok |-> FALSE, b |-> <<>>, rest |-> lines,
          what |-> IF n = "eof" THEN "EOF" ELSE IF n = "up" THEN "blocked" ELSE "reset"]

(***************************************************************************)
(* bodyReader                                                              *)
(***************************************************************************)
NilBr == [set |-> FALSE, eof |-> FALSE, buf |-> <<>>]
\* Conn.body: a fresh bodyReader becomes the pending one.
body == [set |-> TRUE, eof |-> FALSE, buf |-> <<>>]

\* A Read that stops with the connection's first line being a lone LF: the
\* index len(b)-2 is -1 and the Go runtime panics.
bodyReaderReadLine(r, lines, n) ==
    LET l == ReadLine(lines, n) IN
    IF ~l.ok
    THEN [r |-> r, rx |-> l.rest, err |-> l.what, line |-> <<>>]
    ELSE IF Len(l.b) < 2
    THEN [r |-> r, rx |-> l.rest, err |-> "panic", line |-> <<>>]
    ELSE LET b1 == IF l.b[Len(l.b) - 1] = "\r"
                   THEN SubSeq(l.b, 1, Len(l.b) - 2) \o LFs
                   ELSE l.b
         IN IF b1 = dotnl
            THEN [r |-> [r EXCEPT !.eof = TRUE], rx |-> l.rest, err |-> "EOF", line |-> <<>>]
            ELSE [r |-> r, rx |-> l.rest, err |-> "",
                  line |-> IF HasPrefix(b1, dotdot) THEN Tail(b1) ELSE b1]

\* A Read that does not remember that the terminator has been read.
bodyReaderReadForgetful(r, lines, n, size) ==
    IF r.buf = <<>>
    THEN LET f == bodyReaderReadLine(r, lines, n) IN
         IF f.err # ""
         THEN [r |-> f.r, rx |-> f.rx, err |-> f.err, out |-> <<>>]
         ELSE LET k == Min(size, Len(f.line)) IN
              [r |-> [f.r EXCEPT !.buf = SubSeq(f.line, k + 1, Len(f.line))],
               rx |-> f.rx, err |-> "", out |-> SubSeq(f.line, 1, k)]
    ELSE LET k == Min(size, Len(r.buf)) IN
         [r |-> [r EXCEPT !.buf = SubSeq(r.buf, k + 1, Len(r.buf))],
          rx |-> lines, err |-> "", out |-> SubSeq(r.buf, 1, k)]

\* bodyReader.Read(p) with len(p) = size: the bytes returned, the error
\* ("" for nil, "EOF", "reset", "blocked", "panic"), the reader and the
\* connection afterwards.
bodyReaderRead(r, lines, n, size) ==
    IF r.eof
    THEN [r |-> r, rx |-> lines, err |-> "EOF", out |-> <<>>]
    ELSE IF r.buf = <<>>
    THEN LET f == bodyReaderReadLine(r, lines, n) IN
         IF f.err # ""
         THEN [r |-> f.r, rx |-> f.rx, err |-> f.err, out |-> <<>>]
         ELSE LET k == Min(size, Len(f.line)) IN
              [r |-> [f.r EXCEPT !.buf = SubSeq(f.line, k + 1, Len(f.line))],
               rx |-> f.rx, err |-> "", out |-> SubSeq(f.line, 1, k)]
    ELSE LET k == Min(size, Len(r.buf)) IN
         [r |-> [r EXCEPT !.buf = SubSeq(r.buf, k + 1, Len(r.buf))],
          rx |-> lines, err |-> "", out |-> SubSeq(r.buf, 1, k)]

\* ioutil.ReadAll's buffer: at least 512 bytes, more than any line of the model.
ReadAllChunk == 512

\* ioutil.ReadAll(r): Read until an error; io.EOF is reported as success.
RECURSIVE ReadAll(_, _, _, _)
ReadAll(r, lines, n, acc) ==
    CHOOSE x \in { IF f.err = ""
                   THEN ReadAll(f.r, f.rx, n, acc \o f.out)
                   ELSE [r |-> f.r, rx |-> f.rx, out |-> acc,
                         err |-> IF f.err = "EOF" THEN "" ELSE f.err] :
                   f \in {bodyReaderRead(r, lines, n, ReadAllChunk)} } : TRUE

\* A discard that stops after one Read.
discardOneRead(r, lines, n) ==
    CHOOSE x \in { [r |-> f.r, rx |-> f.rx, out |-> f.out,
                    err |-> IF f.err = "EOF" THEN "" ELSE f.err] :
                   f \in {bodyReaderRead(r, lines, n, ReadAllChunk)} } : TRUE

\* bodyReader.discard
discard(r, lines, n) == ReadAll(r, lines, n, <<>>)

(***************************************************************************)
(* Conn.cmd                                                                *)
(***************************************************************************)
\* An expected-code check that compares the hundreds digit for two-digit values too.
MismatchHundreds(expectCode, code) ==
    \/ 1 <= expectCode /\ expectCode < 100 /\ code \div 100 # expectCode
    \/ 100 <= expectCode /\ expectCode < 1000 /\ code # expectCode

\* The expected-code check of cmd: TRUE when the code is rejected.
Mismatch(expectCode, code) ==
    \/ 1 <= expectCode /\ expectCode < 10 /\ code \div 100 # expectCode
    \/ 10 <= expectCode /\ expectCode < 100 /\ code \div 10 # expectCode
    \/ 100 <= expectCode /\ expectCode < 1000 /\ code # expectCode

\* What one execution of cmd did (kept in lastOp.cmds).
CmdTrace(c, name, expectCode) ==
    [name |-> name, expect |-> expectCode, closed |-> c.close,
     hadBr |-> c.br.set, brIn |-> c.br, rxIn |-> c.rx, netIn |-> c.net,
     drained |-> 0, termRead |-> FALSE, wrote |-> FALSE, resp |-> <<>>,
     gotLine |-> FALSE, raw |-> <<>>, code |-> 0, text |-> <<>>, err |-> NoErr,
     brOut |-> c.br, closeOut |-> c.close]

CmdRet(c, code, line, err, tr) ==
    [c |-> c, code |-> code, line |-> line, err |-> err,
     tr |-> [tr EXCEPT !.code = code, !.text = line, !.err = err,
                       !.brOut = c.br, !.closeOut = c.close]]

\* fmt.Fprintf(c.w, ...): fails on a reset or closed transport.  The server
\* answers a command it receives with the lines resp.
WriteOk(n) == n \in {"up", "eof"}

\* The response line of cmd, after the command has been written: l is what
\* ReadString returned.
cmdParse(c, expectCode, name, tr, l) ==
    LET c1 == [c EXCEPT !.rx = l.rest, !.io = @ \cup {"read"}]
        tr1 == [tr EXCEPT !.gotLine = l.ok, !.raw = l.b]
    IN IF ~l.ok
       THEN CmdRet(c1, 0, <<>>, IoError(l.what, name), tr1)
       ELSE IF Len(l.line) < 4 \/ l.line[4] # " "
       THEN CmdRet(c1, 0, <<>>, ProtocolError("short response", name), tr1)
       ELSE IF ~l.p.ok
       THEN CmdRet(c1, 0, <<>>, ProtocolError("invalid response code", name), tr1)
       ELSE IF Mismatch(expectCode, l.p.v)
       THEN CmdRet(c1, l.p.v, SubSeq(l.line, 5, Len(l.line)),
                   StatusError(l.p.v, SubSeq(l.line, 5, Len(l.line)), name), tr1)
       ELSE CmdRet(c1, l.p.v, SubSeq(l.line, 5, Len(l.line)), NoErr, tr1)

\* ReadString('\n'), strings.TrimSpace and strconv.ParseUint(line[0:3]) of cmd.
cmdReadStatus(lines, n) ==
    CHOOSE x \in { [ok |-> l.ok, b |-> l.b, rest |-> l.rest, what |-> l.what, line |-> t,
                    p |-> ParseUint(SubSeq(t, 1, Min(3, Len(t))))] :
                   <<l, t>> \in { <<l0, TrimSpace(l0.b)>> : l0 \in {ReadLine(lines, n)} } } : TRUE

cmdResponse(c, expectCode, name, tr) ==
    CHOOSE x \in { cmdParse(c, expectCode, name, tr, l) : l \in {cmdReadStatus(c.rx, c.net)} } : TRUE

\* The drain of the pending body at the start of cmd.
cmdDrain(c) ==
    IF c.br.set
    THEN discard(c.br, c.rx, c.net)
    ELSE [r |-> c.br, rx |-> c.rx, out |-> <<>>, err |-> ""]

\* cmd after the drain d of the pending body: write the command, read the answer.
cmdSend(c, expectCode, name, resp, d) ==
    LET tr0 == CmdTrace(c, name, expectCode)
        touched == IF c.br.set /\ ~c.br.eof THEN {"read"} ELSE {}
        tr1 == [tr0 EXCEPT !.drained = Len(c.rx) - Len(d.rx), !.termRead = d.r.eof]
    IN IF d.err # ""
       THEN CmdRet([c EXCEPT !.br = d.r, !.rx = d.rx, !.io = @ \cup touched], 0, <<>>,
                   IF d.err = "panic" THEN Panic("index out of range", name)
                                      ELSE IoError(d.err, name), tr1)
       ELSE IF ~WriteOk(c.net)
       THEN CmdRet([c EXCEPT !.br = NilBr, !.rx = d.rx, !.io = @ \cup touched \cup {"write"}],
                   0, <<>>, IoError("write", name), tr1)
       ELSE cmdResponse([c EXCEPT !.br = NilBr,
                                  !.rx = d.rx \o (IF c.net = "up" THEN resp ELSE <<>>),
                                  !.io = @ \cup touched \cup {"write"}],
                        expectCode, name,
                        [tr1 EXCEPT !.wrote = TRUE,
                                    !.resp = IF c.net = "up" THEN resp ELSE <<>>])

\* Conn.cmd(expectCode, name): c is the connection (Conn and transport), resp
\* the lines the server sends when it receives the command.
cmd(c, expectCode, name, resp) ==
    IF c.close
    THEN CmdRet(c, 0, <<>>, ProtocolError("connection closed", name),
                CmdTrace(c, name, expectCode))
    ELSE CHOOSE x \in { cmdSend(c, expectCode, name, resp, d) : d \in {cmdDrain(c)} } : TRUE

(***************************************************************************)
(* The server                                                              *)
(***************************************************************************)
St(d1, d2, d3, text) == <<d1, d2, d3, " ">> \o text \o CRLF
Term == <<".">> \o CRLF
TermLF == <<".", "\n">>
LineA == <<"a">> \o CRLF
LineALF == <<"a", "\n">>
LineStuffed == <<".", ".">> \o CRLF
LineLikeStatus == St("2", "0", "5", <<"x">>)
LineShort == <<"x">> \o CRLF

\* The bodies a server sends after a 1xx/2xx answer to HELP, ARTICLE, HEAD, BODY.
TextBlocks ==
    { <<Term>>, <<LineStuffed, LineLikeStatus, Term>>, <<LineALF, TermLF>> }

\* The methods that return the body as a reader, with command and expected code.
TextOps == {"Help", "ArticleText", "HeadText", "Body"}
TextCmd(op) ==
    CASE op = "Help" -> "HELP" [] op = "ArticleText" -> "ARTICLE"
      [] op = "HeadText" -> "HEAD" [] op = "Body" -> "BODY"
TextCode(op) ==
    CASE op = "Help" -> 100 [] op = "ArticleText" -> 220
      [] op = "HeadText" -> 221 [] op = "Body" -> 222
TextStatus(op) ==
    CASE op = "Help" -> St("1", "0", "0", <<"h">>)
      [] op = "ArticleText" -> St("2", "2", "0", <<"a">>)
      [] op = "HeadText" -> St("2", "2", "1", <<"a">>)
      [] op = "Body" -> St("2", "2", "2", <<"a">>)

TextResponses(op) ==
    { <<TextStatus(op)>> \o b : b \in TextBlocks } \cup { <<St("4", "3", "0", <<"n">>)>> }

QuitResponses ==
    { <<St("2", "0", "5", <<"b">>)>>, <<St("5", "0", "0", <<"b">>)>>, <<LineShort>> }

(***************************************************************************)
(* The connection as one value                                             *)
(***************************************************************************)
Conn ==
    [close |-> close, br |-> br, xzverUnsupported |-> xzverUnsupported,
     xzverSupported |-> xzverSupported, rx |-> rx, net |-> net, io |-> {}]

Store(c) ==
    /\ close' = c.close
    /\ br' = c.br
    /\ xzverUnsupported' = c.xzverUnsupported
    /\ xzverSupported' = c.xzverSupported
    /\ rx' = c.rx
    /\ net' = c.net

NoHist == [xzverFailed |-> FALSE, xzverSucceeded |-> FALSE]

\* arg is the argument of the call, val the value it returned besides the error.
NoRes == [kind |-> "none", pipeline |-> "", recs |-> <<>>, out |-> <<>>, arg |-> <<>>, val |-> <<>>]

Op(name, c, err, cmds, res) ==
    [name |-> name, closedIn |-> close, histIn |-> hist, io |-> c.io, err |-> err,
     cmds |-> cmds, res |-> res, rxOut |-> c.rx]

(***************************************************************************)
(* Conn methods                                                            *)
(***************************************************************************)
\* Conn.Quit
QuitDone(r) ==
    [c |-> [r.c EXCEPT !.net = "closed", !.io = @ \cup {"close"}, !.close = TRUE],
     err |-> r.err, cmds |-> <<r.tr>>]

QuitCall(c, resp) == CHOOSE x \in { QuitDone(r) : r \in {cmd(c, 0, "QUIT", resp)} } : TRUE

Quit ==
    /\ nOps < MaxOps
    /\ \E resp \in QuitResponses :
         \E q \in {QuitCall(Conn, resp)} :
         /\ Store(q.c)
         /\ lastOp' = Op("Quit", q.c, q.err, q.cmds, NoRes)
    /\ live' = FALSE
    /\ nOps' = nOps + 1
    /\ UNCHANGED hist
    /\ UNCHANGED postVars

\* Conn.Help, Conn.ArticleText, Conn.HeadText, Conn.Body
TextDone(r) ==
    IF r.err.kind # "nil"
    THEN [c |-> r.c, err |-> r.err, cmds |-> <<r.tr>>, ok |-> FALSE]
    ELSE [c |-> [r.c EXCEPT !.br = body], err |-> NoErr, cmds |-> <<r.tr>>, ok |-> TRUE]

TextCall(c, op, resp) ==
    CHOOSE x \in { TextDone(r) : r \in {cmd(c, TextCode(op), TextCmd(op), resp)} } : TRUE

TextOp ==
    /\ nOps < MaxOps
    /\ \E op \in TextOps : \E resp \in TextResponses(op) :
         \E t \in {TextCall(Conn, op, resp)} :
         /\ Store(t.c)
         /\ lastOp' = Op(op, t.c, t.err, t.cmds,
                         IF t.ok THEN [NoRes EXCEPT !.kind = "body"] ELSE NoRes)
         /\ live' = t.ok
    /\ nOps' = nOps + 1
    /\ UNCHANGED hist
    /\ UNCHANGED postVars

\* The caller reads from the body reader the last call returned.
ReadSizes == {1, 8}

BodyRead ==
    /\ live
    /\ br.set
    /\ \E size \in ReadSizes :
         \E f \in {bodyReaderRead(br, rx, net, size)} :
         /\ f.err # "blocked"
         /\ br' = f.r
         /\ rx' = f.rx
    /\ UNCHANGED <<close, xzverUnsupported, xzverSupported, net, live, lastOp, nOps, hist>>
    /\ UNCHANGED postVars

\* The connection breaks: the peer closes it ("eof") or it is reset, and the
\* lines still in flight are lost.
Disconnect ==
    /\ net = "up"
    /\ \E kind \in {"eof", "reset"} : \E k \in 0..Len(rx) :
         /\ net' = kind
         /\ rx' = SubSeq(rx, 1, k)
    /\ UNCHANGED <<close, br, xzverUnsupported, xzverSupported, live, lastOp, nOps, hist>>
    /\ UNCHANGED postVars

(***************************************************************************)
(* Overview                                                                *)
(***************************************************************************)
\* The quirk loop of parseOverview: while there are at least 8 fields and the
\* bytes field is no integer, glue it onto the references field.
RECURSIVE glueReferences(_)
glueReferences(ss) ==
    IF Len(ss) < 8 THEN [ss |-> ss, bytes |-> 0]
    ELSE IF ParseInt(ss[7]).ok THEN [ss |-> ss, bytes |-> ParseInt(ss[7]).v]
    ELSE glueReferences(SubSeq(ss, 1, 5) \o <<ss[6] \o ss[7]>> \o SubSeq(ss, 8, Len(ss)))

\* The record of one line once the quirk loop has run (g is its result).
overviewRecord(ss0, g) ==
    IF Len(g.ss) < 8
    THEN [err |-> "panic", rec |-> <<>>]
    ELSE IF g.ss[8] # <<>> /\ ~ParseInt(g.ss[8]).ok
    THEN [err |-> "bad line count", rec |-> <<>>]
    ELSE [err |-> "",
          rec |-> [MessageNumber |-> ParseInt(ss0[1]).v, Subject |-> ss0[2], From |-> ss0[3],
                   MessageId |-> ss0[5], References |-> Split(g.ss[6], " "),
                   Bytes |-> g.bytes,
                   Lines |-> IF g.ss[8] = <<>> THEN 0 ELSE ParseInt(g.ss[8]).v,
                   Extra |-> SubSeq(g.ss, 9, Len(g.ss))]]

overviewFields(ss) ==
    IF Len(ss) < 8 THEN [err |-> "short header listing line", rec |-> <<>>]
    ELSE IF ~ParseInt(ss[1]).ok THEN [err |-> "bad message number", rec |-> <<>>]
    ELSE CHOOSE x \in { overviewRecord(ss, g) : g \in {glueReferences(ss)} } : TRUE

\* The body of parseOverview's loop for one line (already without its ending).
parseOverviewLine(line) ==
    CHOOSE x \in { overviewFields(ss) : ss \in {Split(TrimSpace(line), "\t")} } : TRUE

\* parseOverview(r): lines is what r still holds, n how r ends.  The result is
\* the records, the error ("" for nil) and the lines left unread.
RECURSIVE parseOverview(_, _, _)
parseOverviewStep(l, n, acc) ==
    IF ~l.ok
    THEN IF l.what = "EOF" THEN [recs |-> acc, err |-> "", rest |-> l.rest]
                           ELSE [recs |-> <<>>, err |-> l.what, rest |-> l.rest]
    ELSE IF ChompLine(l.b) = <<".">>
    THEN [recs |-> acc, err |-> "", rest |-> l.rest]
    ELSE CHOOSE x \in { IF o.err # ""
                       THEN [recs |-> <<>>, err |-> o.err, rest |-> l.rest]
                       ELSE parseOverview(l.rest, n, Append(acc, o.rec)) :
                       o \in {parseOverviewLine(ChompLine(l.b))} } : TRUE

parseOverview(lines, n, acc) ==
    CHOOSE x \in { parseOverviewStep(l, n, acc) : l \in {ReadLine(lines, n)} } : TRUE

\* Errors of the decoding functions as error values.
DecodeError(what, src) ==
    IF what = "" THEN NoErr
    ELSE IF what = "panic" THEN Panic("index out of range", src)
    ELSE IF what \in {"EOF", "reset", "blocked"} THEN IoError(what, src)
    ELSE ProtocolError(what, src)

\* The overview lines a compressed payload line stands for.
Tab == <<"\t">>
RECURSIVE JoinTabs(_)
JoinTabs(fields) ==
    IF Len(fields) = 1 THEN fields[1] ELSE fields[1] \o Tab \o JoinTabs(Tail(fields))

OvGood == JoinTabs(<<<<"1">>, <<"s">>, <<"f">>, <<"d">>, <<"m">>, <<"r">>, <<"5">>, <<"2">>>>) \o CRLF
OvShort == JoinTabs(<<<<"1">>, <<"s">>>>) \o CRLF
PayloadGood == <<"P", "g">> \o CRLF
PayloadBad == <<"P", "b">> \o CRLF
YBegin == <<"=", "y", "b", "e", "g", "i", "n">> \o CRLF
YEnd == <<"=", "y", "e", "n", "d">> \o CRLF

Inflate(payload) ==
    IF payload = PayloadGood THEN [ok |-> TRUE, lines |-> <<OvGood>>]
    ELSE IF payload = PayloadBad THEN [ok |-> TRUE, lines |-> <<OvShort>>]
    ELSE [ok |-> FALSE, lines |-> <<>>]

\* Index of the first line of lines that is b, or 0.
FirstLine(lines, b) ==
    IF \E i \in 1..Len(lines) : lines[i] = b
    THEN CHOOSE i \in 1..Len(lines) : lines[i] = b /\ \A j \in 1..(i - 1) : lines[j] # b
    ELSE 0

\* yencReader over Conn.r with flate.NewReader on top: reads the yEnc part
\* through its =yend line and yields the inflated lines.
yencInflate(lines, n) ==
    LET e == FirstLine(lines, YEnd) IN
    IF e = 0
    THEN [err |-> IF n = "eof" THEN "EOF" ELSE IF n = "up" THEN "blocked" ELSE "reset",
          lines |-> <<>>, rest |-> <<>>]
    ELSE IF e = 3 /\ lines[1] = YBegin /\ Inflate(lines[2]).ok
    THEN [err |-> "", lines |-> Inflate(lines[2]).lines, rest |-> SubSeq(lines, e + 1, Len(lines))]
    ELSE [err |-> "corrupt yenc data", lines |-> <<>>, rest |-> SubSeq(lines, e + 1, Len(lines))]

\* newZlibDotResponse over Conn.r: reads the dot-terminated block through its
\* terminator and yields the inflated lines.
zlibDotResponse(lines, n) ==
    LET e == IF FirstLine(lines, Term) = 0 THEN FirstLine(lines, TermLF)
             ELSE FirstLine(lines, Term) IN
    IF e = 0
    THEN [err |-> IF n = "eof" THEN "EOF" ELSE IF n = "up" THEN "blocked" ELSE "reset",
          lines |-> <<>>, rest |-> <<>>]
    ELSE IF e = 2 /\ Inflate(lines[1]).ok
    THEN [err |-> "", lines |-> Inflate(lines[1]).lines, rest |-> SubSeq(lines, e + 1, Len(lines))]
    ELSE [err |-> "corrupt gzip data", lines |-> <<>>, rest |-> SubSeq(lines, e + 1, Len(lines))]

OvRet(c, recs, err, cmds, pipeline) ==
    [c |-> c, recs |-> recs, err |-> err, cmds |-> cmds, pipeline |-> pipeline]

\* A check of the line after the stream that takes any line for the dot.
parseXzverDotAnyLine(c, recs, cmds, l) ==
    IF ~l.ok
    THEN OvRet([c EXCEPT !.rx = l.rest, !.io = @ \cup {"read"}], recs,
               IoError(l.what, "XZVER"), cmds, "xzver")
    ELSE OvRet([c EXCEPT !.rx = l.rest, !.io = @ \cup {"read"}], recs, NoErr, cmds, "xzver")

\* Conn.parseXzver, after the inner stream has been parsed without error: one
\* more line of the connection, which must be ".".
parseXzverDot(c, recs, cmds, l) ==
    IF ~l.ok
    THEN OvRet([c EXCEPT !.rx = l.rest, !.io = @ \cup {"read"}], recs,
               IoError(l.what, "XZVER"), cmds, "xzver")
    ELSE IF TrimRight(l.b) # <<".">>
    THEN OvRet([c EXCEPT !.rx = l.rest, !.io = @ \cup {"read"}], <<>>,
               ProtocolError("unexpected data after XZVER", "XZVER"), cmds, "xzver")
    ELSE OvRet([c EXCEPT !.rx = l.rest, !.io = @ \cup {"read"}], recs, NoErr, cmds, "xzver")

parseXzverParsed(c, cmds, y, o) ==
    IF o.err # ""
    THEN OvRet([c EXCEPT !.rx = y.rest, !.io = @ \cup {"read"}], <<>>,
               DecodeError(o.err, "XZVER"), cmds, "xzver")
    ELSE CHOOSE x \in { parseXzverDot([c EXCEPT !.rx = y.rest], o.recs, cmds, l) :
                        l \in {ReadLine(y.rest, c.net)} } : TRUE

parseXzverInner(c, cmds, y) ==
    IF y.err # ""
    THEN OvRet([c EXCEPT !.rx = y.rest, !.io = @ \cup {"read"}], <<>>,
               DecodeError(y.err, "XZVER"), cmds, "xzver")
    ELSE CHOOSE x \in { parseXzverParsed(c, cmds, y, o) :
                        o \in {parseOverview(y.lines, "eof", <<>>)} } : TRUE

\* Conn.parseXzver
parseXzver(c, cmds) ==
    CHOOSE x \in { parseXzverInner(c, cmds, y) : y \in {yencInflate(c.rx, c.net)} } : TRUE

\* The gzip branch of Conn.Overview.
overviewGzipParsed(c, cmds, z, o) ==
    OvRet([c EXCEPT !.rx = z.rest, !.io = @ \cup {"read"}],
          IF o.err # "" THEN <<>> ELSE o.recs, DecodeError(o.err, cmds[Len(cmds)].name),
          cmds, "gzip")

overviewGzipInner(c, cmds, z) ==
    IF z.err # ""
    THEN OvRet([c EXCEPT !.rx = z.rest, !.io = @ \cup {"read"}], <<>>,
               DecodeError(z.err, cmds[Len(cmds)].name), cmds, "gzip")
    ELSE CHOOSE x \in { overviewGzipParsed(c, cmds, z, o) :
                        o \in {parseOverview(z.lines, "eof", <<>>)} } : TRUE

overviewGzip(c, cmds) ==
    CHOOSE x \in { overviewGzipInner(c, cmds, z) : z \in {zlibDotResponse(c.rx, c.net)} } : TRUE

\* The plain branch of Conn.Overview: parseOverview(c.r).
overviewPlain(c, cmds) ==
    CHOOSE x \in { OvRet([c EXCEPT !.rx = o.rest, !.io = @ \cup {"read"}], o.recs,
                         DecodeError(o.err, cmds[Len(cmds)].name), cmds, "plain") :
                   o \in {parseOverview(c.rx, c.net, <<>>)} } : TRUE

\* Conn.Overview from the test of the response line on.
overviewDecode(c, line, cmds) ==
    IF Contains(line, Marker) THEN overviewGzip(c, cmds) ELSE overviewPlain(c, cmds)

\* An Overview that returns XOVER's error when the retry fails.
overviewXoverOwnError(r2, r3, cmds) ==
    IF r3.err.kind # "nil"
    THEN OvRet(r3.c, <<>>, r3.err, cmds \o <<r2.tr, r3.tr>>, "")
    ELSE overviewDecode(r3.c, r3.line, cmds \o <<r2.tr, r3.tr>>)

\* An Overview that keeps OVER's response line after a successful XOVER.
overviewXoverOverLine(r2, r3, cmds) ==
    IF r3.err.kind # "nil"
    THEN OvRet(r3.c, <<>>, r2.err, cmds \o <<r2.tr, r3.tr>>, "")
    ELSE overviewDecode(r3.c, r2.line, cmds \o <<r2.tr, r3.tr>>)

\* Conn.Overview after OVER failed with status 500: r2 is OVER's result, r3 XOVER's.
overviewXover(r2, r3, cmds) ==
    IF r3.err.kind # "nil"
    THEN OvRet(r3.c, <<>>, r2.err, cmds \o <<r2.tr, r3.tr>>, "")
    ELSE overviewDecode(r3.c, r3.line, cmds \o <<r2.tr, r3.tr>>)

\* A fallback test that retries with XOVER after any status error.
xoverFallbackAnyStatus(err) == err.kind = "Error"

\* The test of OVER's error that sends Overview to XOVER.
xoverFallback(err) == err.kind = "Error" /\ err.code = 500

\* Conn.Overview after an OVER command that is not retried: r2 is its result.
overviewOver(r2, cmds) ==
    IF r2.err.kind # "nil"
    THEN OvRet(r2.c, <<>>, r2.err, cmds \o <<r2.tr>>, "")
    ELSE overviewDecode(r2.c, r2.line, cmds \o <<r2.tr>>)

\* A guard that gives XZVER up once it has failed.
tryXzverUntilFailure(c) == ~c.xzverUnsupported

\* A guard that always attempts XZVER.
tryXzverAlways(c) == TRUE

\* The test that guards the XZVER attempt.
tryXzver(c) == ~c.xzverUnsupported \/ c.xzverSupported

\* Quirks that a failed XZVER leaves alone.
xzverQuirksOnlySuccess(c, err) ==
    IF err.kind # "nil" THEN c ELSE [c EXCEPT !.xzverSupported = TRUE]

\* The quirks after the XZVER command returned err.
xzverQuirks(c, err) ==
    IF err.kind # "nil" THEN [c EXCEPT !.xzverUnsupported = TRUE]
                        ELSE [c EXCEPT !.xzverSupported = TRUE]

XzverResponses ==
    { <<St("2", "2", "4", <<"z">>), YBegin, PayloadGood, YEnd, Term>>,
      <<St("2", "2", "4", <<"z">>), YBegin, PayloadGood, YEnd, LineA, Term>>,
      <<St("2", "2", "4", <<"z">>), YBegin, PayloadBad, YEnd, Term>>,
      <<St("5", "0", "0", <<"z">>)>> }

OverResponses ==
    { <<St("2", "2", "4", <<"o">>), OvGood, Term>>,
      <<St("2", "2", "4", <<"o">>), OvShort, OvGood, Term>>,
      <<St("2", "2", "4", Marker), PayloadGood, Term>>,
      <<St("5", "0", "0", <<"o">>)>>,
      <<St("5", "0", "0", Marker)>>,
      <<St("4", "2", "3", <<"o">>)>>,
      <<LineShort>> }

XoverResponses ==
    { <<St("2", "2", "4", <<"x">>), OvGood, Term>>,
      <<St("2", "2", "4", Marker \o <<"x">>), PayloadGood, Term>>,
      <<St("5", "0", "2", <<"x">>)>>,
      <<LineShort>> }

OverviewReturn(o) ==
    /\ Store(o.c)
    /\ hist' = IF o.cmds[1].name # "XZVER" THEN hist
               ELSE IF o.cmds[1].err.kind # "nil" THEN [hist EXCEPT !.xzverFailed = TRUE]
               ELSE [hist EXCEPT !.xzverSucceeded = TRUE]
    /\ lastOp' = Op("Overview", o.c, o.err, o.cmds,
                    [NoRes EXCEPT !.kind = "records", !.pipeline = o.pipeline, !.recs = o.recs])

\* Conn.Overview from the OVER command on.
OverviewFallback(c, cmds) ==
    \E ro \in OverResponses : \E r2 \in {cmd(c, 224, "OVER", ro)} :
        IF r2.err.kind # "nil" /\ xoverFallback(r2.err)
        THEN \E rxo \in XoverResponses : \E r3 \in {cmd(r2.c, 224, "XOVER", rxo)} :
                 \E o \in {overviewXover(r2, r3, cmds)} : OverviewReturn(o)
        ELSE \E o \in {overviewOver(r2, cmds)} : OverviewReturn(o)

\* Conn.Overview
Overview ==
    /\ nOps < MaxOps
    /\ IF tryXzver(Conn)
       THEN \E rz \in XzverResponses : \E r1 \in {cmd(Conn, 224, "XZVER", rz)} :
                IF r1.err.kind # "nil"
                THEN OverviewFallback(xzverQuirks(r1.c, r1.err), <<r1.tr>>)
                ELSE \E o \in {parseXzver(xzverQuirks(r1.c, r1.err), <<r1.tr>>)} :
                         OverviewReturn(o)
       ELSE OverviewFallback(Conn, <<>>)
    /\ live' = FALSE
    /\ nOps' = nOps + 1
    /\ UNCHANGED postVars

\* Conn.ModeReader
ModeReaderResponses ==
    { <<St("2", "0", "1", <<"m">>)>>, <<St("2", "1", "0", <<"m">>)>> }

ModeReader ==
    /\ nOps < MaxOps
    /\ \E resp \in ModeReaderResponses : \E r \in {cmd(Conn, 20, "MODE READER", resp)} :
         /\ Store(r.c)
         /\ lastOp' = Op("ModeReader", r.c, r.err, <<r.tr>>, NoRes)
    /\ live' = FALSE
    /\ nOps' = nOps + 1
    /\ UNCHANGED hist
    /\ UNCHANGED postVars

\* Conn.Authenticate
UserResponses == { <<St("2", "8", "1", <<"u">>)>>, <<St("3", "8", "1", <<"u">>)>> }
PassResponses == { <<St("2", "8", "1", <<"p">>)>>, <<St("4", "8", "1", <<"p">>)>> }

AuthenticateReturn(c, err, cmds) ==
    /\ Store(c)
    /\ lastOp' = Op("Authenticate", c, err, cmds, NoRes)

Authenticate ==
    /\ nOps < MaxOps
    /\ \E ruser \in UserResponses : \E r1 \in {cmd(Conn, 2, "AUTHINFO USER", ruser)} :
         IF r1.code \div 100 = 3
         THEN \E rpass \in PassResponses : \E r2 \in {cmd(r1.c, 2, "AUTHINFO PASS", rpass)} :
                  AuthenticateReturn(r2.c, r2.err, <<r1.tr, r2.tr>>)
         ELSE AuthenticateReturn(r1.c, r1.err, <<r1.tr>>)
    /\ live' = FALSE
    /\ nOps' = nOps + 1
    /\ UNCHANGED hist
    /\ UNCHANGED postVars

(***************************************************************************)
(* Posting and reading back                                                *)
(***************************************************************************)
\* The texts of the posting check: up to MaxLines lines of up to MaxLineLen
\* characters, each ended by CRLF or by LF.
LineChars == {".", "a"}
LineBodies == UNION { [1..k -> LineChars] : k \in 0..MaxLineLen }
TextLines == [body : LineBodies, ending : {CRLF, LFs}]
Texts == UNION { [1..k -> TextLines] : k \in 0..MaxLines }

\* The bytes of a text.
RECURSIVE Flat(_)
Flat(text) == IF text = <<>> THEN <<>> ELSE Head(text).body \o Head(text).ending \o Flat(Tail(text))

\* Index of the first LF of s, or 0.
IndexLF(s) ==
    IF \E i \in 1..Len(s) : s[i] = "\n"
    THEN CHOOSE i \in 1..Len(s) : s[i] = "\n" /\ \A j \in 1..(i - 1) : s[j] # "\n"
    ELSE 0

\* One line as the loop of RawPost writes it: the LF cut off, a leading dot
\* doubled, CRLF appended.
rawPostLine(line) ==
    LET l == IF HasSuffix(line, LFs) THEN SubSeq(line, 1, Len(line) - 1) ELSE line
    IN (IF HasPrefix(l, <<".">>) THEN <<".">> ELSE <<>>) \o l \o CRLF

\* The loop of RawPost over the bytes of r: the lines it writes.
RECURSIVE rawPostLoop(_, _)
rawPostLoop(bytes, acc) ==
    IF bytes = <<>> THEN acc
    ELSE IF IndexLF(bytes) = 0 THEN Append(acc, rawPostLine(bytes))
    ELSE rawPostLoop(SubSeq(bytes, IndexLF(bytes) + 1, Len(bytes)),
                     Append(acc, rawPostLine(SubSeq(bytes, 1, IndexLF(bytes)))))

PostResponses == { <<St("3", "4", "0", <<"p">>)>>, <<St("4", "4", "0", <<"p">>)>> }
PostedResponses == { <<St("2", "4", "0", <<"p">>)>>, <<St("4", "4", "1", <<"p">>)>> }

RawPostReturn(c, err, cmds, lines) ==
    /\ Store(c)
    /\ lastOp' = Op("RawPost", c, err, cmds, NoRes)
    /\ posted' = lines
    /\ sent' = lines
    /\ pcPost' = IF lines = <<>> THEN "failed" ELSE "read"

\* Conn.RawPost on the text content; the final cmd(240, ".") writes the lone dot.
RawPost ==
    /\ pcPost = "post"
    /\ nOps < MaxOps
    /\ \E rp \in PostResponses : \E r1 \in {cmd(Conn, 3, "POST", rp)} :
         IF r1.err.kind # "nil"
         THEN RawPostReturn(r1.c, r1.err, <<r1.tr>>, <<>>)
         ELSE IF ~WriteOk(r1.c.net)
         THEN RawPostReturn([r1.c EXCEPT !.io = @ \cup {"write"}], IoError("write", "POST"),
                            <<r1.tr>>, <<>>)
         ELSE \E rd \in PostedResponses : \E r2 \in {cmd(r1.c, 240, ".", rd)} :
                  RawPostReturn(r2.c, r2.err, <<r1.tr, r2.tr>>,
                                IF r2.tr.wrote
                                THEN Append(rawPostLoop(Flat(content), <<>>), <<".">> \o CRLF)
                                ELSE <<>>)
    /\ live' = FALSE
    /\ nOps' = nOps + 1
    /\ UNCHANGED hist
    /\ rdr' = body
    /\ UNCHANGED <<content, decoded>>

\* A dot-terminated block as a sender frames it: every line with its own
\* ending, a leading dot doubled, a lone dot line at the end.
RECURSIVE FrameBlock(_)
FrameBlock(text) ==
    IF text = <<>> THEN <<Term>>
    ELSE <<(IF HasPrefix(Head(text).body, <<".">>) THEN <<".">> ELSE <<>>)
            \o Head(text).body \o Head(text).ending>> \o FrameBlock(Tail(text))

\* What a server sends unasked after a block: nothing, or a notice that it
\* is about to close the connection.
Trailers == { <<>>, <<St("4", "0", "0", <<"b">>)>> }

\* The text arrives as the body of a response instead.
ServerBlock ==
    /\ pcPost = "post"
    /\ \E t \in Trailers :
         /\ posted' = FrameBlock(content) \o t
         /\ sent' = FrameBlock(content) \o t
    /\ rdr' = body
    /\ pcPost' = "read"
    /\ UNCHANGED <<content, decoded>>
    /\ UNCHANGED connVars

\* The receiver reads the block through a bodyReader, and goes on reading
\* after the reader has reported the end ("done"): "ended" when a later Read
\* reports the end again, "undone" when it does not.
ReadBack ==
    /\ pcPost \in {"read", "done", "ended"}
    /\ \E size \in ReadSizes : \E f \in {bodyReaderRead(rdr, posted, "up", size)} :
         /\ rdr' = f.r
         /\ posted' = f.rx
         /\ decoded' = decoded \o f.out
         /\ pcPost' = CASE pcPost \in {"done", "ended"} /\ f.err = "EOF" -> "ended"
                        [] pcPost \in {"done", "ended"} /\ f.err # "EOF" -> "undone"
                        [] f.err = "" -> "read"
                        [] f.err = "EOF" -> "done"
                        [] f.err = "panic" -> "panic"
                        [] OTHER -> "blocked"
    /\ UNCHANGED <<content, sent>>
    /\ UNCHANGED connVars

(***************************************************************************)
(* Group                                                                   *)
(***************************************************************************)
\* strings.SplitN(s, sep, n) for n > 0: at most n fields, the last one unsplit.
RECURSIVE SplitN(_, _, _)
SplitN(s, sep, n) ==
    IF n = 1 \/ ~(\E i \in 1..Len(s) : s[i] = sep) THEN <<s>>
    ELSE LET i == CHOOSE k \in 1..Len(s) : s[k] = sep /\ \A j \in 1..(k - 1) : s[j] # sep
         IN <<SubSeq(s, 1, i - 1)>> \o SplitN(SubSeq(s, i + 1, Len(s)), sep, n - 1)

\* A *Group: nil, or the fields of the struct.
NilGroup == [nil |-> TRUE, Name |-> <<>>, Count |-> 0, Low |-> 0, High |-> 0]

\* parseGroupStatus: the status is nil whenever an error is returned, and the
\* struct it builds has no name.
parseGroupStatus(line) ==
    LET ss == SplitN(line, " ", 4) IN
    IF Len(ss) < 3
    THEN [status |-> NilGroup, err |-> "bad group response"]
    ELSE IF \E i \in 1..3 : ~ParseInt(ss[i]).ok
    THEN [status |-> NilGroup, err |-> "bad group response"]
    ELSE [status |-> [nil |-> FALSE, Name |-> <<>>, Count |-> ParseInt(ss[1]).v,
                      Low |-> ParseInt(ss[2]).v, High |-> ParseInt(ss[3]).v],
          err |-> ""]

\* Conn.Group after cmd returned r: on a parse error the name is assigned
\* through the nil status, which the Go runtime answers with a panic.
GroupDone(r, group) ==
    IF r.err.kind # "nil"
    THEN [c |-> r.c, status |-> NilGroup, err |-> r.err]
    ELSE LET p == parseGroupStatus(r.line) IN
         IF p.err # ""
         THEN IF p.status.nil
              THEN [c |-> r.c, status |-> NilGroup,
                    err |-> Panic("nil pointer dereference", "GROUP")]
              ELSE [c |-> r.c, status |-> [p.status EXCEPT !.Name = group],
                    err |-> ProtocolError(p.err, "GROUP")]
         ELSE [c |-> r.c, status |-> p.status, err |-> NoErr]

GroupNames == { <<"g">> }
GroupResponses ==
    { <<St("2", "1", "1", <<"1", " ", "2", " ", "3", " ", "g">>)>>,
      <<St("2", "1", "1", <<"1", " ", "2", " ", "3">>)>>,
      <<St("2", "1", "1", <<"1", " ", "2">>)>>,
      <<St("2", "1", "1", <<"1", " ", "x", " ", "3", " ", "g">>)>>,
      <<St("4", "1", "1", <<"n">>)>> }

\* Conn.Group
Group ==
    /\ nOps < MaxCalls
    /\ \E group \in GroupNames : \E resp \in GroupResponses :
         \E r \in {cmd(Conn, 211, "GROUP", resp)} : \E s \in {GroupDone(r, group)} :
         /\ Store(s.c)
         /\ lastOp' = Op("Group", s.c, s.err, <<r.tr>>,
                         [NoRes EXCEPT !.kind = "status", !.arg = group, !.val = s.status])
    /\ live' = FALSE
    /\ nOps' = nOps + 1
    /\ UNCHANGED hist
    /\ UNCHANGED postVars

(***************************************************************************)
(* parseOverview on single records                                         *)
(***************************************************************************)
\* The records a server sends: number, subject, from, date and message-id,
\* the references value as the fragments an unescaped tab splits it into,
\* the bytes field, the lines field and the extra fields.
RefFragments == { <<<<"r">>>>, <<<<"r">>, <<"q">>>>, <<<<"r">>, <<"q">>, <<"p">>>> }
BytesFields == { <<"5">>, <<"x">> }
LinesFields == { <<"2">>, <<>>, <<"y">> }
ExtraFields == { <<>>, <<<<"e">>>>, <<<<"e">>, <<>>>> }
OvArgs == [frags : RefFragments, bytes : BytesFields, lines : LinesFields, extra : ExtraFields]

\* The fields of the record before the references value.
OvLead == <<<<"1">>, <<"s">>, <<"f">>, <<"d">>, <<"m">>>>

\* The record as a line of the wire.
OvLine(a) == JoinTabs(OvLead \o a.frags \o <<a.bytes, a.lines>> \o a.extra) \o CRLF

\* parseOverview applied to a block of one record: the whole block, or the
\* block without its terminator on a connection that has ended (out tells
\* whether the terminator was there).
ParseOverview ==
    /\ nOps < MaxCalls
    /\ \E a \in OvArgs : \E whole \in BOOLEAN :
         \E o \in {IF whole THEN parseOverview(<<OvLine(a), Term>>, "up", <<>>)
                             ELSE parseOverview(<<OvLine(a)>>, "eof", <<>>)} :
         lastOp' = Op("parseOverview", Conn, DecodeError(o.err, "parseOverview"), <<>>,
                      [NoRes EXCEPT !.kind = "records", !.pipeline = "plain",
                                    !.recs = o.recs, !.arg = a, !.out = <<whole>>])
    /\ nOps' = nOps + 1
    /\ UNCHANGED <<close, br, xzverUnsupported, xzverSupported, rx, net, live, hist>>
    /\ UNCHANGED postVars

(***************************************************************************)
(* NewNews                                                                 *)
(***************************************************************************)
\* readStrings(r): the lines up to a line that is only a dot, without their
\* endings.  io.EOF ends the list without an error.
RECURSIVE readStrings(_, _, _)
readStringsStep(l, n, sv) ==
    IF ~l.ok
    THEN IF l.what = "EOF" THEN [sv |-> sv, err |-> "", rest |-> l.rest, dot |-> FALSE]
                           ELSE [sv |-> <<>>, err |-> l.what, rest |-> l.rest, dot |-> FALSE]
    ELSE IF ChompLine(l.b) = <<".">>
    THEN [sv |-> sv, err |-> "", rest |-> l.rest, dot |-> TRUE]
    ELSE readStrings(l.rest, n, Append(sv, ChompLine(l.b)))

readStrings(lines, n, sv) ==
    CHOOSE x \in { readStringsStep(l, n, sv) : l \in {ReadLine(lines, n)} } : TRUE

\* The value of a byte.
ByteVal(ch) ==
    CASE ch = "<" -> 60 [] ch = ">" -> 62 [] ch = "a" -> 97 [] ch = "b" -> 98

\* s < t for Go strings: bytewise, a proper prefix first.
RECURSIVE stringLess(_, _)
stringLess(s, t) ==
    IF t = <<>> THEN FALSE
    ELSE IF s = <<>> THEN TRUE
    ELSE IF Head(s) # Head(t) THEN ByteVal(Head(s)) < ByteVal(Head(t))
    ELSE stringLess(Tail(s), Tail(t))

\* sort.Strings
RECURSIVE sortInsert(_, _)
sortInsert(sorted, s) ==
    IF sorted = <<>> THEN <<s>>
    ELSE IF stringLess(s, Head(sorted)) THEN <<s>> \o sorted
    ELSE <<Head(sorted)>> \o sortInsert(Tail(sorted), s)

RECURSIVE sortStrings(_)
sortStrings(id) == IF id = <<>> THEN <<>> ELSE sortInsert(sortStrings(Tail(id)), Head(id))

\* A pass over the sorted list that keeps every element.
dedupeKeepAll(id, r, acc) == id

\* The loop of NewNews over the sorted list: an element is kept when it is
\* the first one or differs from the element before it.
RECURSIVE dedupe(_, _, _)
dedupe(id, r, acc) ==
    IF r > Len(id) THEN acc
    ELSE dedupe(id, r + 1, IF r = 1 \/ id[r - 1] # id[r] THEN Append(acc, id[r]) ELSE acc)

\* Conn.NewNews after cmd returned r.
NewNewsDone(r) ==
    IF r.err.kind # "nil"
    THEN [c |-> r.c, id |-> <<>>, err |-> r.err, dot |-> FALSE]
    ELSE LET sv == readStrings(r.c.rx, r.c.net, <<>>) IN
         IF sv.err # ""
         THEN [c |-> [r.c EXCEPT !.rx = sv.rest, !.io = @ \cup {"read"}], id |-> <<>>,
               err |-> IoError(sv.err, "NEWNEWS"), dot |-> FALSE]
         ELSE [c |-> [r.c EXCEPT !.rx = sv.rest, !.io = @ \cup {"read"}],
               id |-> dedupe(sortStrings(sv.sv), 1, <<>>), err |-> NoErr, dot |-> sv.dot]

\* The identifier lists a server sends in reply to NEWNEWS.
MaxIds == 3
MessageIds == { <<"<", "a", ">">>, <<"<", "b", ">">>, <<"<", "a", "b", ">">> }
IdLists == UNION { [1..k -> MessageIds] : k \in 0..MaxIds }

RECURSIVE IdLines(_)
IdLines(ids) == IF ids = <<>> THEN <<>> ELSE <<Head(ids) \o CRLF>> \o IdLines(Tail(ids))

NewNewsResponses ==
    { <<St("2", "3", "0", <<"n">>)>> \o IdLines(ids) \o <<Term>> : ids \in IdLists }
        \cup { <<St("5", "0", "2", <<"n">>)>> }

\* The connection while a call reads a block: as it is, or ended by the peer
\* with only the first k of the lines in flight delivered.
EndedDuring(c) ==
    {c} \cup (IF c.net = "up"
              THEN { [c EXCEPT !.net = "eof", !.rx = SubSeq(c.rx, 1, k)] : k \in 0..(Len(c.rx) - 1) }
              ELSE {})

\* Conn.NewNews; the server may close the connection while the list is read.
NewNews ==
    /\ nOps < MaxCalls
    /\ \E resp \in NewNewsResponses :
         \E r \in {cmd(Conn, 230, "NEWNEWS", resp)} :
         \E c1 \in EndedDuring(r.c) : \E s \in {NewNewsDone([r EXCEPT !.c = c1])} :
         /\ Store(s.c)
         /\ lastOp' = Op("NewNews", s.c, s.err, <<r.tr>>,
                         [NoRes EXCEPT !.kind = "ids", !.val = s.id, !.out = <<s.dot>>])
    /\ live' = FALSE
    /\ nOps' = nOps + 1
    /\ UNCHANGED hist
    /\ UNCHANGED postVars

(***************************************************************************)
(* Head: readHeader over the body reader                                   *)
(***************************************************************************)
\* readLineBytes chops trailing CR, tab and LF off the line.
RECURSIVE chopTrailing(_)
chopTrailing(p) ==
    IF p # <<>> /\ p[Len(p)] \in {"\r", "\t", "\n"}
    THEN chopTrailing(SubSeq(p, 1, Len(p) - 1)) ELSE p

\* The loop of readKeyValue that eats leading spaces and tabs.
RECURSIVE eatLeading(_)
eatLeading(p) == IF p # <<>> /\ Head(p) \in {" ", "\t"} THEN eatLeading(Tail(p)) ELSE p

\* bytes.Index(line, colon): the position of the first colon, or 0.
IndexColon(line) ==
    IF \E i \in 1..Len(line) : line[i] = ":"
    THEN CHOOSE i \in 1..Len(line) : line[i] = ":" /\ \A j \in 1..(i - 1) : line[j] # ":"
    ELSE 0

\* http.CanonicalHeaderKey on the letters of the model: upper case at the
\* start and after a hyphen, lower case elsewhere.
upper(ch) == CASE ch = "a" -> "A" [] ch = "b" -> "B" [] OTHER -> ch
lower(ch) == CASE ch = "A" -> "a" [] ch = "B" -> "b" [] OTHER -> ch
CanonicalHeaderKey(key) ==
    [i \in 1..Len(key) |-> IF i = 1 \/ key[i - 1] = "-" THEN upper(key[i]) ELSE lower(key[i])]

\* The bufio.Reader over the body reader: s.r is the bodyReader, s.rx the
\* connection, s.buf the line read ahead and not consumed (s.has).
HdrStream(r, lines) == [r |-> r, rx |-> lines, has |-> FALSE, buf |-> <<>>]

\* The next line of the stream, with the stream after it.
hdrNext(s, n) ==
    IF s.has
    THEN [s |-> [s EXCEPT !.has = FALSE, !.buf = <<>>], err |-> "", line |-> s.buf]
    ELSE IF s.r.eof THEN [s |-> s, err |-> "EOF", line |-> <<>>]
    ELSE CHOOSE x \in { [s |-> [s EXCEPT !.r = f.r, !.rx = f.rx], err |-> f.err, line |-> f.line] :
                        f \in {bodyReaderReadLine(s.r, s.rx, n)} } : TRUE

\* The extension lines of readKeyValue: a line that begins with space or tab
\* is added to the value after one space; any other line is left in the buffer.
RECURSIVE hdrExtension(_, _, _, _)
hdrExtensionStep(s, n, key, value, l) ==
    IF l.err = "panic" THEN [s |-> l.s, key |-> <<>>, value |-> <<>>, err |-> "panic"]
    ELSE IF l.err # "" THEN [s |-> l.s, key |-> key, value |-> value, err |-> ""]
    ELSE IF Head(l.line) \in {" ", "\t"}
    THEN hdrExtension(l.s, n, key, value \o <<" ">> \o chopTrailing(eatLeading(l.line)))
    ELSE [s |-> [l.s EXCEPT !.has = TRUE, !.buf = l.line], key |-> key, value |-> value,
          err |-> ""]

hdrExtension(s, n, key, value) ==
    CHOOSE x \in { hdrExtensionStep(s, n, key, value, l) : l \in {hdrNext(s, n)} } : TRUE

\* readKeyValue from its first line l on: an empty key with no error is the
\* end of the header.
readKeyValueLine(n, l) ==
    LET line == chopTrailing(l.line)
        i == IndexColon(line)
    IN IF l.err = "EOF" THEN [s |-> l.s, key |-> <<>>, value |-> <<>>, err |-> ""]
       ELSE IF l.err # "" THEN [s |-> l.s, key |-> <<>>, value |-> <<>>, err |-> l.err]
       ELSE IF line = <<>> THEN [s |-> l.s, key |-> <<>>, value |-> <<>>, err |-> ""]
       ELSE IF i = 0 \/ (\E j \in 1..(i - 1) : line[j] = " ")
       THEN [s |-> l.s, key |-> <<>>, value |-> <<>>, err |-> "malformed header line"]
       ELSE hdrExtension(l.s, n, SubSeq(line, 1, i - 1),
                         eatLeading(SubSeq(line, i + 1, Len(line))))

readKeyValue(s, n) ==
    CHOOSE x \in { readKeyValueLine(n, l) : l \in {hdrNext(s, n)} } : TRUE

\* Article.Header, a Go map from key to values: the empty map, the insertion.
EmptyHeader == [k \in {} |-> <<>>]
headerAdd(h, key, value) ==
    [k \in DOMAIN h \cup {key} |->
        IF k # key THEN h[k]
        ELSE IF key \in DOMAIN h THEN Append(h[key], value) ELSE <<value>>]

\* Conn.readHeader
RECURSIVE readHeader(_, _, _)
readHeaderStep(n, h, kv) ==
    IF kv.err # "" THEN [s |-> kv.s, header |-> EmptyHeader, err |-> kv.err]
    ELSE IF kv.key = <<>> THEN [s |-> kv.s, header |-> h, err |-> ""]
    ELSE readHeader(kv.s, n, headerAdd(h, CanonicalHeaderKey(kv.key), kv.value))

readHeader(s, n, h) ==
    CHOOSE x \in { readHeaderStep(n, h, kv) : kv \in {readKeyValue(s, n)} } : TRUE

\* The headers a server sends: key, value and the continuation lines of the value.
MaxHeaders == 2
HeaderEntries ==
    { [key |-> <<"a">>, value |-> <<"1">>, conts |-> <<>>],
      [key |-> <<"A">>, value |-> <<"2">>, conts |-> <<<<"x">>>>],
      [key |-> <<"b">>, value |-> <<"1">>, conts |-> <<>>],
      [key |-> <<"b">>, value |-> <<"2">>, conts |-> <<<<"x">>, <<"y">>>>] }
HeaderLists == UNION { [1..k -> HeaderEntries] : k \in 0..MaxHeaders }

\* The lines of one header on the wire: "key: value", then each continuation
\* after a leading space.
RECURSIVE ContLines(_)
ContLines(conts) ==
    IF conts = <<>> THEN <<>> ELSE <<<<" ">> \o Head(conts) \o CRLF>> \o ContLines(Tail(conts))

RECURSIVE HeaderLines(_)
HeaderLines(hs) ==
    IF hs = <<>> THEN <<>>
    ELSE <<Head(hs).key \o <<":", " ">> \o Head(hs).value \o CRLF>>
             \o ContLines(Head(hs).conts) \o HeaderLines(Tail(hs))

HeadStatus == St("2", "2", "1", <<"h">>)

\* The orders in which a range over a Go map can yield its keys: any.
RangeOrders(h) ==
    { o \in [1..Cardinality(DOMAIN h) -> DOMAIN h] :
        \A i \in DOMAIN o : \A j \in DOMAIN o : i # j => o[i] # o[j] }

\* Conn.Head after cmd returned r.
HeadDone(r) ==
    IF r.err.kind # "nil"
    THEN [c |-> r.c, header |-> EmptyHeader, err |-> r.err]
    ELSE CHOOSE x \in { [c |-> [r.c EXCEPT !.br = h.s.r, !.rx = h.s.rx, !.io = @ \cup {"read"}],
                         header |-> h.header, err |-> DecodeError(h.err, "HEAD")] :
                        h \in {readHeader(HdrStream(body, r.c.rx), r.c.net, EmptyHeader)} } : TRUE

\* Conn.Head: val is the Header map of the article returned, recs the pairs
\* of the map as a range over it yields them.
HeadCall ==
    /\ nOps < MaxCalls
    /\ \E hs \in HeaderLists :
         \E r \in {cmd(Conn, 221, "HEAD", <<HeadStatus>> \o HeaderLines(hs) \o <<Term>>)} :
         \E s \in {HeadDone(r)} : \E o \in RangeOrders(s.header) :
         /\ Store(s.c)
         /\ lastOp' = Op("Head", s.c, s.err, <<r.tr>>,
                         [NoRes EXCEPT !.kind = "article", !.arg = hs, !.val = s.header,
                                       !.recs = [i \in DOMAIN o |-> <<o[i], s.header[o[i]]>>]])
    /\ live' = FALSE
    /\ nOps' = nOps + 1
    /\ UNCHANGED hist
    /\ UNCHANGED postVars

(***************************************************************************)
(* cmd on single response lines                                            *)
(***************************************************************************)
\* The lines a server answers a command with.
StatusLines ==
    { <<"2", "2", "4", " ", "x">> \o CRLF,
      <<"2", "2", "4", " ">> \o CRLF,
      <<"2", "2", "4">> \o CRLF,
      <<"2", "2", "4", "0", " ", "x">> \o CRLF,
      <<"2", "2", " ", "x">> \o CRLF,
      <<"2", "2", "4", "\t", "x">> \o CRLF,
      <<"2", "2", "4", " ", "x", " ">> \o CRLF,
      <<" ", "2", "2", "4", " ", "x">> \o CRLF,
      <<"a", "b", "c", " ", "x">> \o CRLF,
      <<"2", "2", "4", " ", "x", "\n">>,
      <<"5", "0", "0", " ", "x">> \o CRLF,
      CRLF }

\* The expected codes of the calls.
ExpectCodes == {0, 2, 224}

\* cmd applied to the answer line.
CmdCall ==
    /\ nOps < MaxCalls
    /\ \E e \in ExpectCodes : \E line \in StatusLines :
         \E r \in {cmd(Conn, e, "CMD", <<line>>)} :
         /\ Store(r.c)
         /\ lastOp' = Op("cmd", r.c, r.err, <<r.tr>>, [NoRes EXCEPT !.arg = line])
    /\ live' = FALSE
    /\ nOps' = nOps + 1
    /\ UNCHANGED hist
    /\ UNCHANGED postVars

(***************************************************************************)
(* ListGroup                                                               *)
(***************************************************************************)
\* fmt's %d for the article numbers of the model.
FormatInt(n) ==
    LET digit(d) == CHOOSE ch \in Digits : DigitVal(ch) = d
    IN IF n < 0 THEN <<"-", digit(0 - n)>> ELSE <<digit(n)>>

\* The command line ListGroup builds: "LISTGROUP <group>", then " <from>-"
\* when from >= 0, then "<to>" when to >= 0.
listGroupCommand(group, from, to) ==
    LET c0 == <<"L", "I", "S", "T", "G", "R", "O", "U", "P", " ">> \o group
        c1 == IF from >= 0 THEN c0 \o <<" ">> \o FormatInt(from) \o <<"-">> ELSE c0
    IN IF to >= 0 THEN c1 \o FormatInt(to) ELSE c1

\* The status of ListGroup from the text of the 211 answer.
listGroupStatus(line, group) ==
    IF Len(SplitN(line, " ", 4)) >= 3
    THEN LET p == parseGroupStatus(line) IN
         IF p.err # "" THEN [status |-> NilGroup, err |-> p.err]
         ELSE [status |-> [p.status EXCEPT !.Name = group], err |-> ""]
    ELSE [status |-> [nil |-> FALSE, Name |-> group, Count |-> 0, Low |-> 0, High |-> 0],
          err |-> ""]

\* The loop of ListGroup over the body: one article number per line.
RECURSIVE listGroupArticles(_, _, _)
listGroupArticlesStep(s, n, acc, l) ==
    IF l.err = "EOF" THEN [s |-> l.s, articles |-> acc, err |-> ""]
    ELSE IF l.err # "" THEN [s |-> l.s, articles |-> <<>>, err |-> l.err]
    ELSE IF TrimSpace(l.line) = <<".">> THEN [s |-> l.s, articles |-> acc, err |-> ""]
    ELSE IF ~ParseInt(TrimSpace(l.line)).ok
    THEN [s |-> l.s, articles |-> <<>>, err |-> "invalid syntax"]
    ELSE listGroupArticles(l.s, n, Append(acc, ParseInt(TrimSpace(l.line)).v))

listGroupArticles(s, n, acc) ==
    CHOOSE x \in { listGroupArticlesStep(s, n, acc, l) : l \in {hdrNext(s, n)} } : TRUE

\* Conn.ListGroup after cmd returned r.
ListGroupDone(r, group) ==
    IF r.err.kind # "nil"
    THEN [c |-> r.c, status |-> NilGroup, articles |-> <<>>, err |-> r.err]
    ELSE LET st == listGroupStatus(r.line, group) IN
         IF st.err # ""
         THEN [c |-> r.c, status |-> NilGroup, articles |-> <<>>,
               err |-> ProtocolError(st.err, "LISTGROUP")]
         ELSE CHOOSE x \in
                  { [c |-> [r.c EXCEPT !.br = a.s.r, !.rx = a.s.rx, !.io = @ \cup {"read"}],
                     status |-> IF a.err # "" THEN NilGroup ELSE st.status,
                     articles |-> a.articles, err |-> DecodeError(a.err, "LISTGROUP")] :
                    a \in {listGroupArticles(HdrStream(body, r.c.rx), r.c.net, <<>>)} } : TRUE

ListGroupResponses ==
    { <<St("2", "1", "1", <<"2", " ", "1", " ", "5", " ", "g">>), <<"1">> \o CRLF,
        <<"5">> \o CRLF, Term>>,
      <<St("2", "1", "1", <<"g">>), <<"1">> \o CRLF, Term>>,
      <<St("2", "1", "1", <<"x", " ", "1", " ", "5">>), Term>>,
      <<St("2", "1", "1", <<"2", " ", "1", " ", "5", " ", "g">>), LineA, Term>>,
      <<St("4", "1", "1", <<"n">>)>> }

\* Conn.ListGroup with each bound negative (none), zero or positive: out is
\* the command line as it was built.
ListGroup ==
    /\ nOps < MaxCalls
    /\ \E group \in GroupNames : \E from \in {-1, 0, 5} : \E to \in {-1, 0, 5} :
         \E resp \in ListGroupResponses :
         \E r \in {cmd(Conn, 211, "LISTGROUP", resp)} : \E s \in {ListGroupDone(r, group)} :
         /\ Store(s.c)
         /\ lastOp' = Op("ListGroup", s.c, s.err, <<r.tr>>,
                         [NoRes EXCEPT !.kind = "listing",
                                       !.arg = [group |-> group, from |-> from, to |-> to],
                                       !.out = listGroupCommand(group, from, to),
                                       !.val = s.status, !.recs = s.articles])
    /\ live' = FALSE
    /\ nOps' = nOps + 1
    /\ UNCHANGED hist
    /\ UNCHANGED postVars

(***************************************************************************)
(* Specification                                                           *)
(***************************************************************************)
\* newConn: the greeting has been read, nothing is pending.
Init ==
    /\ close = FALSE
    /\ br = NilBr
    /\ xzverUnsupported = FALSE
    /\ xzverSupported = FALSE
    /\ rx = <<>>
    /\ net = "up"
    /\ live = FALSE
    /\ lastOp = [name |-> "newConn", closedIn |-> FALSE, histIn |-> NoHist, io |-> {},
                 err |-> NoErr, cmds |-> <<>>, res |-> NoRes, rxOut |-> <<>>]
    /\ nOps = 0
    /\ hist = NoHist
    /\ content = <<>>
    /\ posted = <<>>
    /\ decoded = <<>>
    /\ rdr = NilBr
    /\ sent = <<>>
    /\ pcPost = "idle"

Next ==
    \/ Quit
    \/ TextOp
    \/ Overview
    \/ ModeReader
    \/ Authenticate
    \/ BodyRead
    \/ Disconnect

Spec == Init /\ [][Next]_vars

\* The posting check: a text is posted, or sent as a block, and read back.
InitPost ==
    /\ close = FALSE
    /\ br = NilBr
    /\ xzverUnsupported = FALSE
    /\ xzverSupported = FALSE
    /\ rx = <<>>
    /\ net = "up"
    /\ live = FALSE
    /\ lastOp = [name |-> "newConn", closedIn |-> FALSE, histIn |-> NoHist, io |-> {},
                 err |-> NoErr, cmds |-> <<>>, res |-> NoRes, rxOut |-> <<>>]
    /\ nOps = 0
    /\ hist = NoHist
    /\ content \in Texts
    /\ posted = <<>>
    /\ decoded = <<>>
    /\ rdr = NilBr
    /\ sent = <<>>
    /\ pcPost = "post"

NextPost ==
    \/ RawPost
    \/ ServerBlock
    \/ ReadBack

SpecPost == InitPost /\ [][NextPost]_vars

\* Single calls on a session: the methods that parse what the server sends.
NextCalls ==
    \/ Group
    \/ ListGroup
    \/ CmdCall
    \/ HeadCall
    \/ NewNews
    \/ ParseOverview
    \/ Disconnect

SpecCalls == Init /\ [][NextCalls]_vars

(***************************************************************************)
(* Properties                                                              *)
(***************************************************************************)
Cmds == lastOp.cmds
CmdIdx == 1..Len(lastOp.cmds)

\* A terminator line as it stands on the wire.
IsTerminator(b) == b = <<".", "\r", "\n">> \/ b = <<".", "\n">>
HasTerminator(lines) == \E i \in 1..Len(lines) : IsTerminator(lines[i])
FirstTerminator(lines) ==
    CHOOSE i \in 1..Len(lines) :
        IsTerminator(lines[i]) /\ \A j \in 1..(i - 1) : ~IsTerminator(lines[j])

\* An execution of cmd that found a body pending that had not been read to its end.
Pending(t) == ~t.closed /\ t.hadBr /\ ~t.brIn.eof

\* C1: a cmd that finds an unfinished body pending drops its lines up to and
\* including the terminator before it writes the command, and the line it then
\* takes as the status line is the line right after that terminator.
C1_DrainBeforeCommand ==
    \A i \in CmdIdx :
        Pending(Cmds[i]) =>
            /\ (Cmds[i].wrote /\ HasTerminator(Cmds[i].rxIn)) =>
                   /\ Cmds[i].termRead
                   /\ Cmds[i].drained = FirstTerminator(Cmds[i].rxIn)
            /\ Cmds[i].gotLine =>
                   /\ HasTerminator(Cmds[i].rxIn)
                   /\ Cmds[i].drained = FirstTerminator(Cmds[i].rxIn)
                   /\ Cmds[i].raw =
                          (Cmds[i].rxIn \o Cmds[i].resp)[FirstTerminator(Cmds[i].rxIn) + 1]
                   /\ ~Cmds[i].brOut.set

C1_Witness ==
    \E i \in CmdIdx :
        /\ Pending(Cmds[i])
        /\ Cmds[i].gotLine
        /\ Cmds[i].drained = 3
        /\ Cmds[i].rxIn[2] = LineLikeStatus
        /\ Cmds[i].err.kind = "nil"

\* C2: once Quit has been called, every later call fails with the
\* closed-connection error and neither writes to, reads from nor closes the
\* transport.
C2_ClosedNoTransport ==
    lastOp.closedIn =>
        /\ lastOp.err.kind = "ProtocolError"
        /\ lastOp.err.what = "connection closed"
        /\ lastOp.io = {}

\* C3 as stated: after an Overview call whose XZVER attempt failed, a later
\* Overview call issues OVER first and no XZVER.
C3_NoXzverAfterFailure ==
    (lastOp.name = "Overview" /\ lastOp.histIn.xzverFailed) =>
        /\ Cmds[1].name = "OVER"
        /\ \A i \in CmdIdx : Cmds[i].name # "XZVER"

\* C3 amended: the same on a session on which no XZVER attempt has succeeded.
C3_NoXzverAfterFailureUnlessSupported ==
    (lastOp.name = "Overview" /\ lastOp.histIn.xzverFailed /\ ~lastOp.histIn.xzverSucceeded) =>
        /\ Cmds[1].name = "OVER"
        /\ \A i \in CmdIdx : Cmds[i].name # "XZVER"

C3_Witness ==
    /\ lastOp.name = "Overview"
    /\ lastOp.histIn.xzverFailed
    /\ ~lastOp.histIn.xzverSucceeded
    /\ Cmds[1].name = "OVER"
    /\ Cmds[1].wrote

\* C4: when the XZVER command of an Overview call fails, the call sets
\* xzverUnsupported, goes on to OVER, and what it returns comes from the
\* OVER/XOVER path, never from XZVER.
C4_XzverFailureFallsThrough ==
    (lastOp.name = "Overview" /\ Cmds[1].name = "XZVER" /\ Cmds[1].err.kind # "nil") =>
        /\ xzverUnsupported
        /\ Len(Cmds) >= 2
        /\ Cmds[2].name = "OVER"
        /\ lastOp.err.src # "XZVER"
        /\ lastOp.res.pipeline # "xzver"
        /\ lastOp.err.kind = "nil" => lastOp.res.pipeline \in {"gzip", "plain"}

C4_Witness ==
    /\ lastOp.name = "Overview"
    /\ Cmds[1].name = "XZVER"
    /\ Cmds[1].err.kind = "Error"
    /\ Len(Cmds) = 2
    /\ lastOp.err.kind = "nil"
    /\ Len(lastOp.res.recs) = 1

IsStatus500(err) == err.kind = "Error" /\ err.code = 500

\* C5: in an Overview call XOVER follows OVER exactly when OVER failed with
\* status 500; any other failure of OVER is returned and ends the call.
C5_XoverOnlyAfter500 ==
    lastOp.name = "Overview" =>
        \A i \in CmdIdx :
            /\ Cmds[i].name = "OVER" =>
                   /\ IsStatus500(Cmds[i].err) <=> (i < Len(Cmds) /\ Cmds[i + 1].name = "XOVER")
                   /\ (Cmds[i].err.kind # "nil" /\ ~IsStatus500(Cmds[i].err)) =>
                          /\ i = Len(Cmds)
                          /\ lastOp.err = Cmds[i].err
                          /\ lastOp.res.recs = <<>>
            /\ Cmds[i].name = "XOVER" => (i > 1 /\ Cmds[i - 1].name = "OVER")

C5_Witness ==
    /\ lastOp.name = "Overview"
    /\ \E i \in CmdIdx :
           /\ Cmds[i].name = "OVER"
           /\ Cmds[i].err.kind = "Error"
           /\ Cmds[i].err.code = 423
           /\ i = Len(Cmds)

\* C6: when OVER fails with status 500 and XOVER fails too, Overview returns
\* OVER's error and no records.
C6_OriginalOverError ==
    lastOp.name = "Overview" =>
        \A i \in CmdIdx :
            (Cmds[i].name = "XOVER" /\ Cmds[i].err.kind # "nil") =>
                /\ lastOp.err = Cmds[i - 1].err
                /\ lastOp.err.src = "OVER"
                /\ lastOp.err.code = 500
                /\ lastOp.res.recs = <<>>

C6_Witness ==
    /\ lastOp.name = "Overview"
    /\ \E i \in CmdIdx :
           /\ Cmds[i].name = "XOVER"
           /\ Cmds[i].err.kind = "ProtocolError"
           /\ Cmds[i - 1].err.code = 500

\* C7: on the OVER/XOVER path the block is decoded through the gzip response
\* exactly when the status text of the command that succeeded contains
\* [COMPRESS=GZIP], and as a plain block otherwise.
C7_PipelineFromSucceededLine ==
    (lastOp.name = "Overview" /\ Cmds[Len(Cmds)].name \in {"OVER", "XOVER"}
        /\ Cmds[Len(Cmds)].err.kind = "nil") =>
        /\ lastOp.res.pipeline \in {"gzip", "plain"}
        /\ lastOp.res.pipeline = "gzip" <=>
               Contains(Cmds[Len(Cmds)].text,
                        <<"[", "C", "O", "M", "P", "R", "E", "S", "S", "=", "G", "Z", "I", "P", "]">>)

C7_Witness ==
    /\ lastOp.name = "Overview"
    /\ Len(Cmds) >= 2
    /\ Cmds[Len(Cmds)].name = "XOVER"
    /\ Cmds[Len(Cmds)].err.kind = "nil"
    /\ Contains(Cmds[Len(Cmds) - 1].text, Marker)
    /\ lastOp.res.pipeline = "plain"

\* C8: when the drain of the pending body ends before its terminator line has
\* been read, cmd returns the failure and does not write the command.
C8_DrainFailureSurfaced ==
    \A i \in CmdIdx :
        (Pending(Cmds[i]) /\ ~Cmds[i].termRead) =>
            /\ ~Cmds[i].wrote
            /\ Cmds[i].err.kind = "io"

\* The lines of a text, each with an LF ending.
RECURSIVE WithLF(_)
WithLF(text) == IF text = <<>> THEN <<>> ELSE Head(text).body \o <<"\n">> \o WithLF(Tail(text))

\* C9: a text framed as a dot-terminated block and read through the reader
\* comes back as its lines with LF endings, and the read ends at the terminator.
C9_RoundTrip ==
    pcPost \in {"done", "ended", "undone", "panic", "blocked"} =>
        /\ pcPost \in {"done", "ended"}
        /\ decoded = WithLF(content)
        /\ posted = SubSeq(sent, FirstTerminator(sent) + 1, Len(sent))

\* The three digits of a status code.
DigitOf(d) == CHOOSE ch \in Digits : DigitVal(ch) = d
CodeDigits(c) == <<DigitOf(c \div 100), DigitOf((c \div 10) % 10), DigitOf(c % 10)>>

\* The acceptance rule of the expected-code check.
Accepted(e, c) ==
    \/ e = 0
    \/ e \in 1..9 /\ (c \div 100) % 10 = e
    \/ e \in 10..99 /\ c \div 10 = e
    \/ e \in 100..999 /\ c = e

\* C10: cmd accepts the parsed status code as the rule says, and a rejection
\* is a status error with the code and the server's text that leaves the
\* session open and no body pending.
C10_ExpectedCode ==
    \A i \in CmdIdx :
        (Cmds[i].gotLine /\ Cmds[i].err.kind \in {"nil", "Error"}) =>
            /\ Cmds[i].code \in 0..999
            /\ Cmds[i].raw = CodeDigits(Cmds[i].code) \o <<" ">> \o Cmds[i].text \o CRLF
            /\ Cmds[i].err.kind = "nil" <=> Accepted(Cmds[i].expect, Cmds[i].code)
            /\ Cmds[i].err.kind = "Error" =>
                   /\ Cmds[i].err.code = Cmds[i].code
                   /\ Cmds[i].err.text = Cmds[i].text
                   /\ ~Cmds[i].closeOut
                   /\ ~Cmds[i].brOut.set

C10_Witness ==
    \E i \in CmdIdx :
        /\ Cmds[i].expect = 20
        /\ Cmds[i].code = 210
        /\ Cmds[i].err.kind = "Error"
        /\ Cmds[i].hadBr

\* The three leading integers of a well-formed GROUP status text.
GroupTextOk(text) ==
    /\ Len(Split(text, " ")) >= 3
    /\ \A i \in 1..3 : ParseInt(Split(text, " ")[i]).ok

\* C11: when the server answers GROUP with 211, Group returns a non-nil status
\* with the requested name: with count, low and high and no error when the
\* text is well formed, together with a protocol error when it is malformed.
C11_GroupStatusNamed ==
    (lastOp.name = "Group" /\ Cmds[1].gotLine /\ Cmds[1].code = 211 /\ Cmds[1].err.kind = "nil") =>
        /\ ~lastOp.res.val.nil
        /\ lastOp.res.val.Name = lastOp.res.arg
        /\ GroupTextOk(Cmds[1].text) =>
               /\ lastOp.err.kind = "nil"
               /\ lastOp.res.val.Count = ParseInt(Split(Cmds[1].text, " ")[1]).v
               /\ lastOp.res.val.Low = ParseInt(Split(Cmds[1].text, " ")[2]).v
               /\ lastOp.res.val.High = ParseInt(Split(Cmds[1].text, " ")[3]).v
        /\ ~GroupTextOk(Cmds[1].text) => lastOp.err.kind = "ProtocolError"

\* Concatenation of a sequence of byte strings.
RECURSIVE Concat(_)
Concat(ss) == IF ss = <<>> THEN <<>> ELSE Head(ss) \o Concat(Tail(ss))

\* The call was parseOverview on one record.
Parsed == lastOp.name = "parseOverview"
ParsedArg == lastOp.res.arg

\* C12: a record whose references value was split by unescaped tabs is
\* repaired: one record comes back whose references are the fragments
\* concatenated, with the bytes value, the lines value and the extra fields
\* the server sent.
C12_GlueRepairs ==
    (Parsed /\ Len(ParsedArg.frags) >= 2 /\ ParseInt(ParsedArg.bytes).ok
        /\ (ParsedArg.lines = <<>> \/ ParseInt(ParsedArg.lines).ok)) =>
        /\ lastOp.err.kind = "nil"
        /\ Len(lastOp.res.recs) = 1
        /\ lastOp.res.recs[1].References = <<Concat(ParsedArg.frags)>>
        /\ lastOp.res.recs[1].Bytes = ParseInt(ParsedArg.bytes).v
        /\ lastOp.res.recs[1].Lines =
               (IF ParsedArg.lines = <<>> THEN 0 ELSE ParseInt(ParsedArg.lines).v)
        /\ lastOp.res.recs[1].Extra = ParsedArg.extra

\* C13: an empty lines field gives line count 0 and no error, wherever the
\* field stands; a non-empty lines field that is no integer is a protocol error.
C13_EmptyLinesAccepted ==
    (Parsed /\ Len(ParsedArg.frags) = 1 /\ ParseInt(ParsedArg.bytes).ok) =>
        /\ ParsedArg.lines = <<>> =>
               /\ lastOp.err.kind = "nil"
               /\ Len(lastOp.res.recs) = 1
               /\ lastOp.res.recs[1].Lines = 0
        /\ (ParsedArg.lines # <<>> /\ ~ParseInt(ParsedArg.lines).ok) =>
               /\ lastOp.err.kind = "ProtocolError"
               /\ lastOp.res.recs = <<>>

\* C19: on a line of at least 8 tab-delimited fields parseOverview ends with
\* one record or with a protocol error, never with a read past the fields
\* that are left after the gluing.
C19_NoFieldPastTheEnd ==
    (Parsed /\ Len(Split(ChompLine(OvLine(ParsedArg)), "\t")) >= 8) =>
        \/ lastOp.err.kind = "nil" /\ Len(lastOp.res.recs) = 1
        \/ lastOp.err.kind = "ProtocolError" /\ lastOp.res.recs = <<>>

\* The identifiers of the list the server sent in answer to the last command.
WireIds ==
    { ChompLine(Cmds[1].resp[i]) : i \in 2..(Len(Cmds[1].resp) - 1) }

\* C14: NewNews returns the distinct identifiers of the list the server sent,
\* each once, in strictly increasing bytewise order.
C14_SortedDistinct ==
    (lastOp.name = "NewNews" /\ lastOp.err.kind = "nil" /\ Cmds[1].raw = Cmds[1].resp[1]
        /\ lastOp.res.out = <<TRUE>>) =>
        /\ { lastOp.res.val[i] : i \in 1..Len(lastOp.res.val) } = WireIds
        /\ \A i \in 1..Len(lastOp.res.val) : \A j \in 1..Len(lastOp.res.val) :
               i < j => stringLess(lastOp.res.val[i], lastOp.res.val[j])

C14_Witness ==
    /\ lastOp.name = "NewNews"
    /\ lastOp.err.kind = "nil"
    /\ Len(Cmds[1].resp) = 5
    /\ ChompLine(Cmds[1].resp[2]) = <<"<", "b", ">">>
    /\ ChompLine(Cmds[1].resp[3]) = <<"<", "a", "b", ">">>
    /\ ChompLine(Cmds[1].resp[4]) = <<"<", "b", ">">>
    /\ lastOp.res.val = << <<"<", "a", "b", ">">>, <<"<", "b", ">">> >>

\* A header value with its continuation lines folded in, one space before each.
RECURSIVE Folded(_, _)
Folded(value, conts) ==
    IF conts = <<>> THEN value ELSE Folded(value \o <<" ">> \o Head(conts), Tail(conts))

\* The (key, values) pairs of a header list in first-seen order of the keys.
RECURSIVE PairsOf(_, _)
PairsOf(hs, acc) ==
    IF hs = <<>> THEN acc
    ELSE LET k == CanonicalHeaderKey(Head(hs).key)
             v == Folded(Head(hs).value, Head(hs).conts)
         IN IF \E i \in 1..Len(acc) : acc[i][1] = k
            THEN PairsOf(Tail(hs), [i \in 1..Len(acc) |->
                                       IF acc[i][1] = k THEN <<k, Append(acc[i][2], v)>>
                                                        ELSE acc[i]])
            ELSE PairsOf(Tail(hs), Append(acc, <<k, <<v>>>>))

\* The last call was a Head that got the header block the server sent.
HeadParsed ==
    /\ lastOp.name = "Head"
    /\ Cmds[1].err.kind = "nil"
    /\ Cmds[1].raw = Cmds[1].resp[1]

\* C15: the article's header yields the (key, values) pairs of the wire in
\* first-seen order of the keys, every value of a repeated key kept in wire
\* order, every continuation line joined to its value with one space.
C15_HeaderPairsInOrder ==
    HeadParsed =>
        /\ lastOp.err.kind = "nil"
        /\ lastOp.res.recs = PairsOf(lastOp.res.arg, <<>>)

\* The framing rule of a response line: at least 4 characters, the 4th a space.
WellFramed(l) == Len(l) >= 4 /\ l[4] = " "
IsShortResponse(err) == err.kind = "ProtocolError" /\ err.what = "short response"

\* C16: cmd fails with 'short response' exactly on the lines that have fewer
\* than 4 characters or no space as 4th character; a line of three digits and
\* one space is accepted with an empty status text.
C16_ResponseFraming ==
    (lastOp.name = "cmd" /\ Cmds[1].gotLine) =>
        /\ WellFramed(ChompLine(Cmds[1].raw)) <=> ~IsShortResponse(lastOp.err)
        /\ ChompLine(Cmds[1].raw) = <<"2", "2", "4", " ">> =>
               /\ lastOp.err.kind = "nil"
               /\ Cmds[1].code = 224
               /\ Cmds[1].text = <<>>

\* The last call was an Overview whose XZVER command was answered 224.
XzverAnswered ==
    /\ lastOp.name = "Overview"
    /\ Cmds[1].name = "XZVER"
    /\ Cmds[1].err.kind = "nil"

\* The lines that followed the status line of the XZVER command.
XzverBlock ==
    SubSeq(Cmds[1].rxIn \o Cmds[1].resp, Cmds[1].drained + 2,
           Len(Cmds[1].rxIn) + Len(Cmds[1].resp))

\* The block is a yEnc part whose payload decodes to well-formed overview
\* lines, and one more line follows it.
XzverDecodes ==
    /\ Len(XzverBlock) >= 4
    /\ XzverBlock[1] = <<"=", "y", "b", "e", "g", "i", "n", "\r", "\n">>
    /\ XzverBlock[2] = <<"P", "g", "\r", "\n">>
    /\ XzverBlock[3] = <<"=", "y", "e", "n", "d", "\r", "\n">>

\* C17: after an XZVER response that decoded without error Overview reads
\* exactly one more line; a dot gives the records and leaves the connection at
\* the line after it, any other line gives 'unexpected data after XZVER' and
\* no records.  A 224 answer to XZVER sets xzverSupported and the call sends
\* no OVER, also when the decoding fails.
C17_XzverTrailingDot ==
    XzverAnswered =>
        /\ xzverSupported
        /\ \A i \in CmdIdx : Cmds[i].name # "OVER"
        /\ lastOp.res.pipeline = "xzver"
        /\ XzverDecodes =>
               /\ lastOp.rxOut = SubSeq(XzverBlock, 5, Len(XzverBlock))
               /\ IF ChompLine(XzverBlock[4]) = <<".">>
                  THEN /\ lastOp.err.kind = "nil"
                       /\ Len(lastOp.res.recs) = 1
                  ELSE /\ lastOp.err.kind = "ProtocolError"
                       /\ lastOp.err.what = "unexpected data after XZVER"
                       /\ lastOp.res.recs = <<>>

C17_Witness ==
    /\ XzverAnswered
    /\ XzverDecodes
    /\ ChompLine(XzverBlock[4]) = <<"a">>
    /\ lastOp.err.what = "unexpected data after XZVER"
    /\ lastOp.rxOut = <<<<".", "\r", "\n">>>>

\* The number of line ends in a byte string.
RECURSIVE CountLF(_)
CountLF(bytes) ==
    IF bytes = <<>> THEN 0
    ELSE (IF Head(bytes) = "\n" THEN 1 ELSE 0) + CountLF(Tail(bytes))

\* C18: once the reader has read its terminator line, the consumer has got
\* the lines before the terminator and nothing of the terminator, every later
\* read reports the end again, and the connection stays at the line after the
\* terminator however many reads follow.
C18_EndIsSticky ==
    /\ pcPost # "undone"
    /\ rdr.eof =>
           /\ pcPost \in {"done", "ended"}
           /\ HasTerminator(sent)
           /\ posted = SubSeq(sent, FirstTerminator(sent) + 1, Len(sent))
           /\ CountLF(decoded) = FirstTerminator(sent) - 1

C18_Witness ==
    /\ pcPost = "ended"
    /\ rdr.eof
    /\ Len(posted) = 1
    /\ CountLF(decoded) = 2

\* A line of an overview block: tab-separated fields.
IsOverviewLine(b) == \E k \in 1..Len(b) : b[k] = "\t"

\* C20: when Overview fails on a malformed record of a plain block, the rest
\* of the block is consumed: no overview line stays on the connection after the
\* call, and no command ever takes an overview line for its status line.
C20_FailedBlockConsumed ==
    /\ (lastOp.name = "Overview" /\ lastOp.res.pipeline = "plain"
          /\ lastOp.err.kind = "ProtocolError") =>
           \A k \in 1..Len(lastOp.rxOut) : ~IsOverviewLine(lastOp.rxOut[k])
    /\ \A i \in CmdIdx : Cmds[i].gotLine => ~IsOverviewLine(Cmds[i].raw)

\* C21: NewNews (a listing read with readStrings) and parseOverview on a plain
\* block report success only when the terminator line of the block has been
\* read; a block cut short by the end of the connection is an error.
C21_NoTruncatedSuccess ==
    /\ (lastOp.name = "NewNews" /\ lastOp.err.kind = "nil") => lastOp.res.out = <<TRUE>>
    /\ (lastOp.name = "parseOverview" /\ lastOp.err.kind = "nil") => lastOp.res.out = <<TRUE>>

\* The XZVER command of the call in lastOp was written and got an answer that
\* cmd did not accept.
XzverRefused(op) ==
    /\ op.name = "Overview"
    /\ Len(op.cmds) >= 1
    /\ op.cmds[1].name = "XZVER"
    /\ op.cmds[1].wrote
    /\ op.cmds[1].gotLine
    /\ op.cmds[1].err.kind # "nil"

\* C22: xzverUnsupported becomes true only in an Overview call whose XZVER
\* command was written and answered with a refusal; an attempt that fails
\* before that leaves both flags as they were; no flag goes back to false.
C22_UnsupportedOnlyOnRefusal ==
    [][ /\ (~xzverUnsupported /\ xzverUnsupported') => XzverRefused(lastOp')
        /\ xzverUnsupported => xzverUnsupported'
        /\ xzverSupported => xzverSupported' ]_vars

\* C23: once an XZVER attempt has succeeded on the session, every later
\* Overview call issues XZVER as its first command, also after a later attempt
\* has failed, and writes it whenever the session lets cmd write.
C23_XzverFirstOnceSupported ==
    (lastOp.name = "Overview" /\ lastOp.histIn.xzverSucceeded) =>
        /\ Cmds[1].name = "XZVER"
        /\ (~Cmds[1].closed /\ Cmds[1].netIn = "up" /\ ~Cmds[1].hadBr) => Cmds[1].wrote

C23_Witness ==
    /\ lastOp.name = "Overview"
    /\ lastOp.histIn.xzverSucceeded
    /\ lastOp.histIn.xzverFailed
    /\ Cmds[1].name = "XZVER"
    /\ Cmds[1].wrote

\* C24: the command ListGroup sends is "LISTGROUP <group>", followed by
\* nothing or by one space and a range: the group name ends the line or is
\* followed by a space.
C24_GroupNameSeparated ==
    lastOp.name = "ListGroup" =>
        LET prefix == <<"L", "I", "S", "T", "G", "R", "O", "U", "P", " ">> \o lastOp.res.arg.group
            line == lastOp.res.out
        IN /\ Len(line) >= Len(prefix)
           /\ SubSeq(line, 1, Len(prefix)) = prefix
           /\ Len(line) > Len(prefix) =>
                  /\ line[Len(prefix) + 1] = " "
                  /\ Len(line) > Len(prefix) + 1
                  /\ line[Len(prefix) + 2] # " "

====
